---- MODULE Spec2Model ----
(***************************************************************************)
(* Customer booking wizard of the turf-booking front end.                  *)
(*                                                                         *)
(*   CustomerBooking     currentStep, selectedDate, selectedSlot,          *)
(*                       selectedGround, bookingConfirmation               *)
(*   DateSelection       datesByMonth, dsLoading, dsError   (step 1)       *)
(*   TimeSlotSelection   slots, selectedSlots, tsLoading, tsError,         *)
(*                       tsRequest (step 2)                                *)
(*   GroundSelection     grounds, gsLoading, gsError, gsRequest (step 3)   *)
(*   BookingForm         formData, validationErrors, bfLoading, bfError,   *)
(*                       paymentStep     (step 4, until confirmation)      *)
(*   lateFetches         the list requests of step components that were    *)
(*                       unmounted before the answer came (followed only   *)
(*                       in SpecLate)                                      *)
(*   admin               the adminToken of localStorage and the admin page *)
(*   offline             OfflineBookingFlow of the admin dashboard         *)
(*   orders              the payment attempts started by submits: each is  *)
(*                       the closure of one handleSubmit / initializePayment*)
(*                       call, with the widget and requests it has open    *)
(*                                                                         *)
(* A child component exists only while its step is rendered; React         *)
(* creates it with its useState initial values on mount and drops its      *)
(* state on unmount.  The variables of a component that is not mounted     *)
(* hold its useState initial values.  Every async handler is split at its  *)
(* await: the part before it runs with the event that starts it, the part  *)
(* after it is the action that receives the collaborator's answer.         *)
(***************************************************************************)
EXTENDS Integers, Sequences, FiniteSets, TLC

\* ---------------------------------------------------------------- bounds
\* Hours of a day in the slot list (24 in production), under SpecEngine,
\* under Spec, under SpecPayment and under SpecToggle.
NumHours == 4
NumHoursWizard == 2
NumHoursPayment == 1
NumHoursToggle == 2

\* Payment attempts one session may start, under Spec and under SpecPayment.
MaxOrders == 1
MaxOrdersPayment == 2

\* Longest phone number and longest e-mail address typed, under SpecPhone
\* and under SpecEmail.
MaxPhoneLen == 11
MaxEmailLen == 5

\* Longest run of hours stored, under SpecRange.
MaxRun == 3

\* Hours of the day offered to, and submits made by, the admin's offline
\* booking flow, under SpecAdmin.
NumHoursOffline == 2
MaxSubmits == 2

\* The hours of a day are 0 .. 23.
HoursPerDay == 24

Dates == {"2026-02-10", "2026-02-11"}
DatesPayment == {"2026-02-10"}
GroundIds == {"G1", "G2"}
GroundIdsPayment == {"G1"}

\* JavaScript null: of an object-valued field, and of an error message.
Null == <<>>
NoError == "null"
NoDate == "null"

\* --------------------------------------------------------------- messages
ErrNoSlot == "Please select at least one time slot"
ErrNotConsecutive == "Please select consecutive time slots only"
ErrLoadSlots == "Failed to load available slots. Please try again."
ErrLoadDates == "Failed to load available dates. Please try again."
ErrLoadGrounds == "Failed to load available grounds. Please try again."

VARIABLES
    currentStep, selectedDate, selectedSlot, selectedGround, bookingConfirmation,
    datesByMonth, dsLoading, dsError,
    slots, selectedSlots, tsLoading, tsError, tsRequest,
    grounds, gsLoading, gsError, gsRequest,
    formData, validationErrors, bfLoading, bfError, paymentStep,
    orders, lateFetches, admin, offline

\* The admin pages share no state with the customer page.
adminVars == <<admin, offline>>

\* The fields of CustomerBooking and, with them, what changes only when
\* CustomerBooking renders another step (lateFetches) or not at all on the
\* customer page (adminVars).
wizardVars == <<currentStep, selectedDate, selectedSlot, selectedGround, bookingConfirmation,
                lateFetches, adminVars>>
dsVars == <<datesByMonth, dsLoading, dsError>>
tsVars == <<slots, selectedSlots, tsLoading, tsError, tsRequest>>
gsVars == <<grounds, gsLoading, gsError, gsRequest>>
bfVars == <<formData, validationErrors, bfLoading, bfError, paymentStep>>
vars == <<wizardVars, dsVars, tsVars, gsVars, bfVars, orders>>
stepVars == <<currentStep, selectedDate, selectedSlot, selectedGround, bookingConfirmation>>

\* ------------------------------------------------- external collaborator
\* getAvailableSlots answers with one {slot, enabled} entry per hour, the
\* label fixed by the hour and the enabled flag chosen by the server.
SlotLabel(h) == <<"slot", h>>

SlotResponses(numHours) ==
    LET hours == 0 .. (numHours - 1)
    IN  { [h \in hours |-> [slot |-> SlotLabel(h), enabled |-> (h \in en)]] :
            en \in SUBSET hours }

\* getAvailableDates and getAvailableGrounds answer with the known dates and
\* grounds, each flagged by the server.
DateResponses(dates) ==
    { [d \in dates |-> [date |-> d, enabled |-> (d \in en)]] : en \in SUBSET dates }

GroundResponses(ids) ==
    { [g \in ids |-> [id |-> g, available |-> (g \in av)]] : av \in SUBSET ids }

\* --------------------------------------------------- component lifecycle
MountDateSelection ==
    /\ datesByMonth' = <<>>
    /\ dsLoading' = TRUE
    /\ dsError' = NoError

MountTimeSlotSelection ==
    /\ slots' = <<>>
    /\ selectedSlots' = <<>>
    /\ tsLoading' = TRUE
    /\ tsError' = NoError

MountGroundSelection ==
    /\ grounds' = <<>>
    /\ gsLoading' = TRUE
    /\ gsError' = NoError

\* Strings the user types are sequences of characters.
EmptyForm == [name |-> <<>>, phone |-> <<>>, email |-> <<>>]

MountBookingForm ==
    /\ formData' = EmptyForm
    /\ validationErrors' = <<>>
    /\ bfLoading' = FALSE
    /\ bfError' = NoError
    /\ paymentStep' = "form"

\* -------------------------------------------------------------- adminApi
\* localStorage.getItem('adminToken') of a browser that never logged in.
NoToken == "null"

\* A browser that never logged in, at the login page. granted records
\* whether a login was answered with success and a token since the last
\* adminLogout, tab is activeTab and banner offlineBookingSuccess of the
\* dashboard.
AdminInit ==
    [token |-> NoToken, granted |-> FALSE, page |-> "login", tab |-> "current",
     banner |-> Null]

\* useState initial values of OfflineBookingFlow. request is the bookingData
\* of the last createOfflineBooking call, completed the booking last passed
\* to onBookingComplete, submits the number of submits so far.
MountOfflineBookingFlow ==
    [currentStep |-> 1, selectedDate |-> NoDate, selectedSlot |-> Null,
     selectedGround |-> Null,
     formData |-> [name |-> <<>>, phone |-> <<>>, email |-> <<>>, totalAmount |-> <<>>],
     loading |-> FALSE, error |-> NoError,
     request |-> Null, completed |-> Null, submits |-> 0]

\* -------------------------------------------------------- CustomerBooking
InitialRender(followed) ==
    /\ currentStep = 1
    /\ selectedDate = NoDate
    /\ selectedSlot = Null
    /\ selectedGround = Null
    /\ bookingConfirmation = Null
    /\ datesByMonth = <<>>
    /\ dsLoading = TRUE
    /\ dsError = NoError
    /\ slots = <<>>
    /\ selectedSlots = <<>>
    /\ tsLoading = TRUE
    /\ tsError = NoError
    /\ tsRequest = NoDate
    /\ grounds = <<>>
    /\ gsLoading = TRUE
    /\ gsError = NoError
    /\ gsRequest = Null
    /\ formData = EmptyForm
    /\ validationErrors = <<>>
    /\ bfLoading = FALSE
    /\ bfError = NoError
    /\ paymentStep = "form"
    /\ orders = <<>>
    /\ lateFetches = [followed |-> followed, pending |-> {}, answered |-> {}]
    /\ admin = AdminInit
    /\ offline = MountOfflineBookingFlow

Init == InitialRender(FALSE)
InitLate == InitialRender(TRUE)

\* Which child components the render of CustomerBooking shows.
DateSelectionMounted == currentStep = 1
TimeSlotSelectionMounted == currentStep = 2
GroundSelectionMounted == currentStep = 3
BookingFormMounted == currentStep = 4 /\ bookingConfirmation = Null
ConfirmationShown == bookingConfirmation # Null

\* The confirmation view reads selectedSlot.hours: rendering it without a
\* stored slot throws and takes the page down.
RenderCrashed == bookingConfirmation # Null /\ selectedSlot = Null

\* The payment widget is a modal over the page (escape and backdrop close
\* are off): the page takes no click while a widget is open.
WidgetOpen == \E k \in DOMAIN orders : orders[k].st = "open"

PageInteractive == ~WidgetOpen /\ ~RenderCrashed

\* The arguments of the getAvailableGrounds call a GroundSelection with these
\* props makes: none when a prop is missing.
GroundsRequest(date, slot) ==
    IF date # NoDate /\ slot # Null
    THEN [date |-> date, hours |-> slot.hours]
    ELSE Null

\* The component of the rendered step awaits the answer to its list request.
StepLoading ==
    \/ currentStep = 1 /\ dsLoading
    \/ currentStep = 2 /\ tsLoading /\ tsRequest # NoDate
    \/ currentStep = 3 /\ gsLoading /\ gsRequest # Null

\* A component unmounted while it awaits its list leaves the request behind:
\* nothing cancels the fetch.
Abandon(newStep) ==
    IF lateFetches.followed /\ newStep # currentStep /\ StepLoading
    THEN [lateFetches EXCEPT !.pending = @ \cup {currentStep}]
    ELSE lateFetches

\* Re-render after step and confirmation become newStep and newConf: a child
\* that stays rendered keeps its state, any other child is (re)created or
\* dropped.
RenderChildren(newStep, newConf) ==
    /\ IF newStep = 1 /\ currentStep = 1
       THEN UNCHANGED dsVars ELSE MountDateSelection
    /\ IF newStep = 2 /\ currentStep = 2
       THEN UNCHANGED tsVars
       ELSE /\ MountTimeSlotSelection
            /\ tsRequest' = IF newStep = 2 THEN selectedDate' ELSE NoDate
    /\ IF newStep = 3 /\ currentStep = 3
       THEN UNCHANGED gsVars
       ELSE /\ MountGroundSelection
            /\ gsRequest' = IF newStep = 3
                             THEN GroundsRequest(selectedDate', selectedSlot')
                             ELSE Null
    /\ IF newStep = 4 /\ newConf = Null /\ BookingFormMounted
       THEN UNCHANGED bfVars ELSE MountBookingForm
    /\ lateFetches' = Abandon(newStep)
    /\ UNCHANGED adminVars

\* A payment attempt whose BookingForm is gone keeps running, but its
\* setState calls no longer reach a component.
Orphaned(os) == [k \in DOMAIN os |-> [os[k] EXCEPT !.live = FALSE]]

OrdersAfterRender(os, newStep, newConf) ==
    IF newStep = 4 /\ newConf = Null /\ BookingFormMounted THEN os ELSE Orphaned(os)

\* Mutant: a date chosen again resumes at the form when a slot and a ground
\* are still stored.
handleDateSelectResuming(date) ==
    /\ selectedDate' = date
    /\ currentStep' = IF selectedSlot # Null /\ selectedGround # Null THEN 4 ELSE 2

handleDateSelect(date) ==
    /\ selectedDate' = date
    /\ currentStep' = 2

\* Mutant: the step advances without the slot being stored.
handleSlotSelectStepOnly(slot, hour, hours) ==
    /\ currentStep' = 3
    /\ UNCHANGED selectedSlot

\* Mutant: the stored hour is the last selected hour.
handleSlotSelectLastHour(slot, hour, hours) ==
    /\ selectedSlot' = [slot |-> slot, hour |-> hours[Len(hours)], hours |-> hours]
    /\ currentStep' = 3

handleSlotSelect(slot, hour, hours) ==
    /\ selectedSlot' = [slot |-> slot, hour |-> hour, hours |-> hours]
    /\ currentStep' = 3

handleGroundSelect(ground) ==
    /\ selectedGround' = ground
    /\ currentStep' = 4

\* ---------------------------------------------------------- DateSelection
DateListShown ==
    DateSelectionMounted /\ ~dsLoading /\ dsError = NoError /\ PageInteractive

fetchAvailableDates ==
    /\ dsLoading' = TRUE
    /\ dsError' = NoError
    /\ UNCHANGED datesByMonth

RetryDates ==
    /\ DateSelectionMounted /\ ~dsLoading /\ dsError # NoError /\ PageInteractive
    /\ fetchAvailableDates
    /\ UNCHANGED <<wizardVars, tsVars, gsVars, bfVars, orders>>

DatesLoaded(dates) ==
    /\ DateSelectionMounted /\ dsLoading
    /\ \E data \in DateResponses(dates) : datesByMonth' = data
    /\ dsLoading' = FALSE
    /\ UNCHANGED <<wizardVars, dsError, tsVars, gsVars, bfVars, orders>>

DatesFailed ==
    /\ DateSelectionMounted /\ dsLoading
    /\ dsError' = ErrLoadDates
    /\ dsLoading' = FALSE
    /\ UNCHANGED <<wizardVars, datesByMonth, tsVars, gsVars, bfVars, orders>>

handleDateClick(dateObj) ==
    IF dateObj.enabled
    THEN /\ handleDateSelect(dateObj.date)
         /\ RenderChildren(2, bookingConfirmation)
         /\ orders' = OrdersAfterRender(orders, 2, bookingConfirmation)
         /\ UNCHANGED <<selectedSlot, selectedGround, bookingConfirmation>>
    ELSE UNCHANGED <<wizardVars, dsVars, tsVars, gsVars, bfVars, orders>>

DateClick ==
    /\ DateListShown
    /\ \E d \in DOMAIN datesByMonth : handleDateClick(datesByMonth[d])

\* ------------------------------------------------------ TimeSlotSelection
SlotGridShown ==
    TimeSlotSelectionMounted /\ ~tsLoading /\ tsError = NoError /\ PageInteractive

fetchAvailableSlots ==
    /\ tsLoading' = TRUE
    /\ tsError' = NoError
    /\ tsRequest' = selectedDate
    /\ UNCHANGED <<slots, selectedSlots>>

RetrySlots ==
    /\ TimeSlotSelectionMounted /\ ~tsLoading /\ tsError # NoError /\ PageInteractive
    /\ fetchAvailableSlots
    /\ UNCHANGED <<wizardVars, dsVars, gsVars, bfVars, orders>>

SlotsLoaded(numHours) ==
    /\ TimeSlotSelectionMounted /\ tsLoading /\ tsRequest # NoDate
    /\ \E data \in SlotResponses(numHours) : slots' = data
    /\ tsLoading' = FALSE
    /\ UNCHANGED <<wizardVars, dsVars, tsRequest, selectedSlots, tsError, gsVars, bfVars, orders>>

\* Mutant: the failure is stored but loading is never switched off.
SlotsFailedStillLoading ==
    /\ TimeSlotSelectionMounted /\ tsLoading /\ tsRequest # NoDate
    /\ tsError' = ErrLoadSlots
    /\ UNCHANGED <<wizardVars, dsVars, tsRequest, slots, selectedSlots, tsLoading, gsVars, bfVars, orders>>

SlotsFailed ==
    /\ TimeSlotSelectionMounted /\ tsLoading /\ tsRequest # NoDate
    /\ tsError' = ErrLoadSlots
    /\ tsLoading' = FALSE
    /\ UNCHANGED <<wizardVars, dsVars, tsRequest, slots, selectedSlots, gsVars, bfVars, orders>>

\* Mutant: the selection is searched for something no entry matches.
IsSelectedNever(sel, index) == FALSE

\* selectedSlots.some(s => s.index === index)
IsSelected(sel, index) == \E i \in 1 .. Len(sel) : sel[i].index = index

\* prev.filter(s => s.index !== index)
RemoveSlot(sel, index) == SelectSeq(sel, LAMBDA s : s.index # index)

\* [...prev, { slot: slotObj.slot, index }]
AddSlot(sel, slotObj, index) == Append(sel, [slot |-> slotObj.slot, index |-> index])

\* The selection one call of handleSlotClick leaves: isSelected is read from
\* rendered, the selectedSlots of the render the handler belongs to, and the
\* updater it queues is applied to prev, the selection as it is by then.
SlotUpdate(rendered, prev, slotObj, index) ==
    IF ~slotObj.enabled
    THEN prev
    ELSE IF IsSelected(rendered, index)
         THEN RemoveSlot(prev, index)
         ELSE AddSlot(prev, slotObj, index)

\* Mutant: a click on a booked slot toggles it like any other.
handleSlotClickAnySlot(slotObj, index) ==
    IF IsSelected(selectedSlots, index)
    THEN selectedSlots' = RemoveSlot(selectedSlots, index)
    ELSE selectedSlots' = AddSlot(selectedSlots, slotObj, index)

handleSlotClick(slotObj, index) ==
    IF ~slotObj.enabled
    THEN UNCHANGED selectedSlots
    ELSE selectedSlots' = SlotUpdate(selectedSlots, selectedSlots, slotObj, index)

SlotClick ==
    /\ SlotGridShown
    /\ \E index \in DOMAIN slots : handleSlotClick(slots[index], index)
    /\ UNCHANGED <<wizardVars, dsVars, tsRequest, slots, tsLoading, tsError, gsVars, bfVars, orders>>

\* Two clicks handled before the component renders again (two click events
\* dispatched in one task): both run the handler of the same render, and
\* the second updater is applied to what the first one returned.
TwoClicks(first, second) ==
    selectedSlots' =
        SlotUpdate(selectedSlots,
                   SlotUpdate(selectedSlots, selectedSlots, slots[first], first),
                   slots[second], second)

SlotClickTwice ==
    /\ SlotGridShown
    /\ \E first \in DOMAIN slots : \E second \in DOMAIN slots : TwoClicks(first, second)
    /\ UNCHANGED <<wizardVars, dsVars, tsRequest, slots, tsLoading, tsError, gsVars, bfVars, orders>>

\* selectedSlots.map(s => s.index)
Indices(sel) == [i \in 1 .. Len(sel) |-> sel[i].index]

\* [...].sort((a, b) => a - b)
SortAscending(xs) == SortSeq(xs, LAMBDA a, b : a < b)

\* Mutant: the selection is passed on in the order it was toggled.
SortByIndexSkipped(sel) == sel

\* [...selectedSlots].sort((a, b) => a.index - b.index)
SortByIndex(sel) == SortSeq(sel, LAMBDA a, b : a.index < b.index)

\* Mutant: the indices are compared in the order they were toggled.
areSlotConsecutiveUnsorted(sel) ==
    IF Len(sel) <= 1
    THEN TRUE
    ELSE LET indices == Indices(sel)
         IN  \A i \in 2 .. Len(indices) : indices[i] = indices[i - 1] + 1

\* Mutant: a gap between neighbours is not noticed.
areSlotConsecutiveGaps(sel) ==
    IF Len(sel) <= 1
    THEN TRUE
    ELSE LET indices == SortAscending(Indices(sel))
         IN  \A i \in 2 .. Len(indices) : indices[i] >= indices[i - 1] + 1

areSlotConsecutive(sel) ==
    IF Len(sel) <= 1
    THEN TRUE
    ELSE LET indices == SortAscending(Indices(sel))
         IN  \A i \in 2 .. Len(indices) : indices[i] = indices[i - 1] + 1

\* Mutant: an empty selection is reported like a selection with a gap.
handleConfirmSelectionOneMessage ==
    IF Len(selectedSlots) = 0 \/ ~areSlotConsecutive(selectedSlots)
    THEN /\ tsError' = ErrNotConsecutive
         /\ UNCHANGED <<wizardVars, dsVars, tsRequest, slots, selectedSlots, tsLoading, gsVars, bfVars, orders>>
    ELSE LET sortedSlots == SortByIndex(selectedSlots)
             hours == Indices(sortedSlots)
         IN  /\ handleSlotSelect(sortedSlots[1].slot, sortedSlots[1].index, hours)
             /\ UNCHANGED <<selectedDate, selectedGround, bookingConfirmation>>
             /\ RenderChildren(3, bookingConfirmation)
             /\ orders' = OrdersAfterRender(orders, 3, bookingConfirmation)

handleConfirmSelection ==
    IF Len(selectedSlots) = 0
    THEN /\ tsError' = ErrNoSlot
         /\ UNCHANGED <<wizardVars, dsVars, tsRequest, slots, selectedSlots, tsLoading, gsVars, bfVars, orders>>
    ELSE IF ~areSlotConsecutive(selectedSlots)
         THEN /\ tsError' = ErrNotConsecutive
              /\ UNCHANGED <<wizardVars, dsVars, tsRequest, slots, selectedSlots, tsLoading, gsVars, bfVars, orders>>
         ELSE LET sortedSlots == SortByIndex(selectedSlots)
                  hours == Indices(sortedSlots)
              IN  /\ handleSlotSelect(sortedSlots[1].slot, sortedSlots[1].index, hours)
                  /\ UNCHANGED <<selectedDate, selectedGround, bookingConfirmation>>
                  /\ RenderChildren(3, bookingConfirmation)
                  /\ orders' = OrdersAfterRender(orders, 3, bookingConfirmation)

\* The confirm button is rendered once a slot is selected and is disabled
\* while the selection is not consecutive.
ConfirmButtonEnabled ==
    /\ SlotGridShown
    /\ Len(selectedSlots) > 0
    /\ areSlotConsecutive(selectedSlots)

ConfirmClick ==
    /\ ConfirmButtonEnabled
    /\ handleConfirmSelection

\* handleConfirmSelection called while the slot grid is shown, whatever the
\* button's state: the engine's confirm() as an operation of its own.
ConfirmCall ==
    /\ SlotGridShown
    /\ handleConfirmSelection

\* Mutant: going back from the slot step discards the stored slot.
SlotBackDiscarding ==
    /\ SlotGridShown
    /\ currentStep' = 1
    /\ selectedSlot' = Null
    /\ RenderChildren(1, bookingConfirmation)
    /\ orders' = OrdersAfterRender(orders, 1, bookingConfirmation)
    /\ UNCHANGED <<selectedDate, selectedGround, bookingConfirmation>>

SlotBack ==
    /\ SlotGridShown
    /\ currentStep' = 1
    /\ RenderChildren(1, bookingConfirmation)
    /\ orders' = OrdersAfterRender(orders, 1, bookingConfirmation)
    /\ UNCHANGED <<selectedDate, selectedSlot, selectedGround, bookingConfirmation>>

\* -------------------------------------------------------- GroundSelection
GroundGridShown ==
    GroundSelectionMounted /\ ~gsLoading /\ gsError = NoError /\ PageInteractive

fetchAvailableGrounds ==
    /\ gsLoading' = TRUE
    /\ gsError' = NoError
    /\ gsRequest' = GroundsRequest(selectedDate, selectedSlot)
    /\ UNCHANGED grounds

RetryGrounds ==
    /\ GroundSelectionMounted /\ ~gsLoading /\ gsError # NoError /\ PageInteractive
    /\ fetchAvailableGrounds
    /\ UNCHANGED <<wizardVars, dsVars, tsVars, bfVars, orders>>

GroundsLoaded(ids) ==
    /\ GroundSelectionMounted /\ gsLoading /\ gsRequest # Null
    /\ \E data \in GroundResponses(ids) : grounds' = data
    /\ gsLoading' = FALSE
    /\ UNCHANGED <<wizardVars, dsVars, tsVars, gsError, gsRequest, bfVars, orders>>

GroundsFailed ==
    /\ GroundSelectionMounted /\ gsLoading /\ gsRequest # Null
    /\ gsError' = ErrLoadGrounds
    /\ gsLoading' = FALSE
    /\ UNCHANGED <<wizardVars, dsVars, tsVars, grounds, gsRequest, bfVars, orders>>

\* Mutant: a click on a ground that is not available selects it.
handleGroundClickAnyGround(ground) ==
    /\ handleGroundSelect(ground)
    /\ RenderChildren(4, bookingConfirmation)
    /\ orders' = OrdersAfterRender(orders, 4, bookingConfirmation)
    /\ UNCHANGED <<selectedDate, selectedSlot, bookingConfirmation>>

handleGroundClick(ground) ==
    IF ground.available
    THEN /\ handleGroundSelect(ground)
         /\ RenderChildren(4, bookingConfirmation)
         /\ orders' = OrdersAfterRender(orders, 4, bookingConfirmation)
         /\ UNCHANGED <<selectedDate, selectedSlot, bookingConfirmation>>
    ELSE UNCHANGED <<wizardVars, dsVars, tsVars, gsVars, bfVars, orders>>

GroundClick ==
    /\ GroundGridShown
    /\ \E g \in DOMAIN grounds : handleGroundClick(grounds[g])

\* Mutant: going back from the ground step discards the stored ground.
GroundBackDiscarding ==
    /\ GroundGridShown
    /\ currentStep' = 2
    /\ selectedGround' = Null
    /\ UNCHANGED <<selectedDate, selectedSlot, bookingConfirmation>>
    /\ RenderChildren(2, bookingConfirmation)
    /\ orders' = OrdersAfterRender(orders, 2, bookingConfirmation)

GroundBack ==
    /\ GroundGridShown
    /\ currentStep' = 2
    /\ UNCHANGED <<selectedDate, selectedSlot, selectedGround, bookingConfirmation>>
    /\ RenderChildren(2, bookingConfirmation)
    /\ orders' = OrdersAfterRender(orders, 2, bookingConfirmation)

\* --------------------------------------------------------------- helpers
\* `${displayHour}:00 ${amPm}`
formatTime(hour) ==
    LET displayHour == IF hour % 12 = 0 THEN 12 ELSE hour % 12
        amPm == IF hour < 12 THEN "AM" ELSE "PM"
    IN  [hour |-> displayHour, amPm |-> amPm]

\* `${startTime} to ${endTime}`, '' for no hours
formatTimeRange(hours) ==
    IF Len(hours) = 0 THEN <<>>
    ELSE IF Len(hours) = 1
         THEN [start |-> formatTime(hours[1]), end |-> formatTime(hours[1] + 1)]
         ELSE LET sortedHours == SortAscending(hours)
              IN  [start |-> formatTime(sortedHours[1]),
                   end |-> formatTime(sortedHours[Len(sortedHours)] + 1)]

\* The time the booking summary of the form and the confirmation show.
TimeShown ==
    IF Len(selectedSlot.hours) > 1
    THEN formatTimeRange(selectedSlot.hours)
    ELSE selectedSlot.slot

\* ------------------------------------------------------------ validation
Digits == {"0", "1", "2", "3", "4", "5", "6", "7", "8", "9"}
Whitespace == {" "}

\* String.prototype.trim
RECURSIVE TrimLeft(_)
TrimLeft(str) ==
    IF Len(str) > 0 /\ Head(str) \in Whitespace THEN TrimLeft(Tail(str)) ELSE str

RECURSIVE TrimRight(_)
TrimRight(str) ==
    IF Len(str) > 0 /\ str[Len(str)] \in Whitespace
    THEN TrimRight(SubSeq(str, 1, Len(str) - 1))
    ELSE str

Trim(str) == TrimRight(TrimLeft(str))

\* RegExp.prototype.test, as the matcher runs it: a set of positions is the
\* numbers of characters the expression may have consumed so far; ^ starts
\* at {0} and $ asks for Len(str) among the positions reached.
\* c: one literal character.
Literal(str, starts, c) ==
    { i + 1 : i \in { s \in starts : s < Len(str) /\ str[s + 1] = c } }

\* \d
DigitChar(c) == c \in Digits

\* [^\s@]
LocalChar(c) == c \notin Whitespace /\ c # "@"

\* \d{n}: exactly n digits.
DigitsTimes(str, starts, n) ==
    { i + n : i \in { s \in starts : /\ s + n <= Len(str)
                                      /\ \A k \in (s + 1) .. (s + n) : DigitChar(str[k]) } }

\* [^\s@]+: one or more characters that are neither whitespace nor @.
LocalChars(str, starts) ==
    { j \in 1 .. Len(str) :
        \E i \in starts : i < j /\ \A k \in (i + 1) .. j : LocalChar(str[k]) }

\* Mutant: the expression without its $.
isValidPhoneUnanchored(phone) ==
    DigitsTimes(phone, {0}, 10) # {}

\* /^\d{10}$/
isValidPhone(phone) ==
    Len(phone) \in DigitsTimes(phone, {0}, 10)

\* Mutant: the expression without the part after the dot.
isValidEmailNoSuffix(email) ==
    LET local == LocalChars(email, {0})
        domain == LocalChars(email, Literal(email, local, "@"))
    IN  Len(email) \in Literal(email, domain, ".")

\* /^[^\s@]+@[^\s@]+\.[^\s@]+$/
isValidEmail(email) ==
    LET local == LocalChars(email, {0})
        domain == LocalChars(email, Literal(email, local, "@"))
        suffix == LocalChars(email, Literal(email, domain, "."))
    IN  Len(email) \in suffix

NameError(name) ==
    IF Len(Trim(name)) = 0 THEN "Name is required"
    ELSE IF Len(Trim(name)) < 2 THEN "Name must be at least 2 characters"
    ELSE NoError

PhoneError(phone) ==
    IF Len(Trim(phone)) = 0 THEN "Phone number is required"
    ELSE IF ~isValidPhone(Trim(phone)) THEN "Phone number must be 10 digits"
    ELSE NoError

EmailError(email) ==
    IF Len(Trim(email)) = 0 THEN "Email is required"
    ELSE IF ~isValidEmail(Trim(email)) THEN "Please enter a valid email address"
    ELSE NoError

\* The errors object validateForm builds: one key per field that failed.
FormErrors(fd) ==
    LET all == [name |-> NameError(fd.name), phone |-> PhoneError(fd.phone),
                email |-> EmailError(fd.email)]
        bad == { f \in DOMAIN all : all[f] # NoError }
    IN  [f \in bad |-> all[f]]

\* Object.keys(errors).length === 0
validateForm(fd) == DOMAIN FormErrors(fd) = {}

\* ------------------------------------------------------------ BookingForm
\* What the user types into the form while the wizard is explored.
WizardInputs ==
    [name |-> { <<"A", "l">> },
     phone |-> { <<"9", "8", "7", "6", "5", "4", "3", "2", "1", "0">> },
     email |-> { <<"a", "@", "b", ".", "c", "o">>, <<"a", "@", "b">> }]

\* What the user may have typed when the validators are explored: phone
\* numbers of up to MaxPhoneLen digits, all digits or with another character
\* in the first or the last place, and every e-mail of up to MaxEmailLen
\* characters over EmailChars, with the three addresses the validator is
\* documented with.
PhoneDigits == <<"9", "8", "7", "6", "5", "4", "3", "2", "1", "0">>
OddChars == {"a", " ", "+"}

PhoneInputs ==
    UNION { { [i \in 1 .. k |-> IF i = p THEN c ELSE PhoneDigits[((i - 1) % Len(PhoneDigits)) + 1]] :
                p \in {0, 1, k}, c \in OddChars } : k \in 0 .. MaxPhoneLen }

EmailChars == {"a", "@", ".", " "}

EmailInputs ==
    UNION { [1 .. k -> EmailChars] : k \in 0 .. MaxEmailLen }
      \cup { <<"a", "@", "b", ".", "c", "o">>, <<"a", "@", "b">>,
             <<"a", ".", "c", "o", "m">> }

FormInputsPhone ==
    [name |-> { <<"A", "l">>, <<>> }, phone |-> PhoneInputs,
     email |-> { <<"a", "@", "b", ".", "c", "o">> }]

FormInputsEmail ==
    [name |-> { <<"A", "l">>, <<>> }, phone |-> { PhoneDigits },
     email |-> EmailInputs]

\* What handleConfirmSelection stores for a run of n hours from hour h on.
StoredRun(h, n) ==
    [slot |-> SlotLabel(h), hour |-> h, hours |-> [i \in 1 .. n |-> h + i - 1]]

FirstHour == { StoredRun(0, 1) }

\* Every run of up to MaxRun hours of a day.
StoredRuns ==
    { run \in { StoredRun(h, n) : h \in 0 .. (HoursPerDay - 1), n \in 1 .. MaxRun } :
        run.hours[Len(run.hours)] < HoursPerDay }

\* The wizard at the form step, a date, a run of hours and a ground chosen,
\* with something typed into the form.
InitAtForm(inputs, stored) ==
    /\ currentStep = 4
    /\ selectedDate \in DatesPayment
    /\ selectedSlot \in stored
    /\ selectedGround \in { [id |-> g, available |-> TRUE] : g \in GroundIdsPayment }
    /\ bookingConfirmation = Null
    /\ datesByMonth = <<>> /\ dsLoading = TRUE /\ dsError = NoError
    /\ slots = <<>> /\ selectedSlots = <<>> /\ tsLoading = TRUE /\ tsError = NoError
    /\ tsRequest = NoDate
    /\ grounds = <<>> /\ gsLoading = TRUE /\ gsError = NoError /\ gsRequest = Null
    /\ formData \in [name : inputs.name, phone : inputs.phone, email : inputs.email]
    /\ validationErrors = <<>>
    /\ bfLoading = FALSE
    /\ bfError = NoError
    /\ paymentStep = "form"
    /\ orders = <<>>
    /\ lateFetches = [followed |-> FALSE, pending |-> {}, answered |-> {}]
    /\ admin = AdminInit
    /\ offline = MountOfflineBookingFlow

\* The form is on the page; its inputs and buttons are disabled while loading.
FormUsable == BookingFormMounted /\ ~bfLoading /\ PageInteractive

\* Mutant: an edit discards the errors of every field.
handleInputChangeClearingAll(name, value) ==
    /\ formData' = [formData EXCEPT ![name] = value]
    /\ validationErrors' = [f \in DOMAIN validationErrors |-> NoError]

handleInputChange(name, value) ==
    /\ formData' = [formData EXCEPT ![name] = value]
    /\ IF name \in DOMAIN validationErrors /\ validationErrors[name] # NoError
       THEN validationErrors' = [validationErrors EXCEPT ![name] = NoError]
       ELSE UNCHANGED validationErrors

InputChange(inputs) ==
    /\ FormUsable
    /\ \E name \in DOMAIN inputs : \E value \in inputs[name] :
           handleInputChange(name, value)
    /\ UNCHANGED <<wizardVars, dsVars, tsVars, gsVars, bfLoading, bfError, paymentStep, orders>>

\* The closure of one payment attempt:
\*   st        where the attempt is: "creating" (createPaymentOrder awaited),
\*             "open" (widget open), "verifying" (verifyPayment awaited),
\*             "reporting", "cancelling" (ondismiss awaiting
\*             handlePaymentFailure, cancelBooking), or how it ended
\*   live      its BookingForm is still mounted
\*   data      name, phone and email of the bookingData it sent
\*   bookingId orderData.booking.id, 0 until the order exists
\*   reported  handlePaymentFailure was called for its booking
\*   log       the steps of the attempt that succeeded, in order
NewOrder(fd) ==
    [st |-> "creating", live |-> TRUE,
     data |-> [name |-> Trim(fd.name), phone |-> Trim(fd.phone), email |-> Trim(fd.email)],
     bookingId |-> 0, reported |-> FALSE, log |-> <<"validated">>]

\* Mutant: the order is requested whatever validateForm answers.
handleSubmitUnchecked ==
    /\ validationErrors' = FormErrors(formData)
    /\ bfLoading' = TRUE
    /\ bfError' = NoError
    /\ paymentStep' = "processing"
    /\ orders' = Append(orders, NewOrder(formData))

\* handleSubmit up to its await of createPaymentOrder.
handleSubmit ==
    /\ validationErrors' = FormErrors(formData)
    /\ IF ~validateForm(formData)
       THEN UNCHANGED <<bfLoading, bfError, paymentStep, orders>>
       ELSE /\ bfLoading' = TRUE
            /\ bfError' = NoError
            /\ paymentStep' = "processing"
            /\ orders' = Append(orders, NewOrder(formData))

Submit(maxOrders) ==
    /\ FormUsable
    /\ validateForm(formData) => Len(orders) < maxOrders
    /\ handleSubmit
    /\ UNCHANGED <<wizardVars, dsVars, tsVars, gsVars, formData>>

FormBack ==
    /\ FormUsable
    /\ currentStep' = 3
    /\ UNCHANGED <<selectedDate, selectedSlot, selectedGround, bookingConfirmation>>
    /\ RenderChildren(3, bookingConfirmation)
    /\ orders' = OrdersAfterRender(orders, 3, bookingConfirmation)

\* ------------------------------------------------- payment attempt closures
\* setState calls of attempt k reach the form only while its form is mounted.
SetIfLive(k, newLoading, newError, newStep) ==
    IF orders[k].live
    THEN /\ bfLoading' = newLoading
         /\ bfError' = newError
         /\ paymentStep' = newStep
    ELSE UNCHANGED <<bfLoading, bfError, paymentStep>>

\* An attempt that has run to its end holds on to nothing.
Ended == {"createFailed", "openFailed", "unverified", "verified", "dismissed"}

OrderTo(k, st) ==
    orders' = [orders EXCEPT ![k].st = st,
                             ![k].live = IF st \in Ended THEN FALSE ELSE @]

FormOnly == UNCHANGED <<wizardVars, dsVars, tsVars, gsVars, formData, validationErrors>>

\* createPaymentOrder answered success, with the booking it created, and
\* window.Razorpay opened the widget.
OrderCreated(k) ==
    /\ orders[k].st = "creating"
    /\ orders' = [orders EXCEPT ![k].st = "open", ![k].bookingId = k,
                                ![k].log = Append(@, "ordered")]
    /\ UNCHANGED <<wizardVars, dsVars, tsVars, gsVars, bfVars>>

\* catch block of handleSubmit: createPaymentOrder threw or answered
\* success = false ("createFailed"), or opening the widget threw
\* ("openFailed").
OrderNotStarted(k) ==
    /\ orders[k].st = "creating"
    /\ \/ OrderTo(k, "createFailed")
       \/ orders' = [orders EXCEPT ![k].st = "openFailed", ![k].live = FALSE,
                                   ![k].bookingId = k, ![k].log = Append(@, "ordered")]
    /\ \E msg \in {"Failed to create payment order", "server message"} :
           SetIfLive(k, FALSE, msg, "form")
    /\ FormOnly

\* razorpayInstance.on('payment.failed'): the widget stays open for a retry.
PaymentFailed(k) ==
    /\ orders[k].st = "open"
    /\ SetIfLive(k, FALSE, "Payment failed: reason", "form")
    /\ orders' = [orders EXCEPT ![k].reported = TRUE]
    /\ FormOnly

\* verifyResult.booking: the booking the verification request named.
BookingOf(bookingId) == [id |-> bookingId]

handleBookingComplete(confirmation) == bookingConfirmation' = confirmation

\* Mutant: the handler completes the booking before verifying the payment.
PaymentSucceededCompletes(k) ==
    /\ orders[k].st = "open"
    /\ handleBookingComplete(BookingOf(orders[k].bookingId))
    /\ RenderChildren(currentStep, BookingOf(orders[k].bookingId))
    /\ orders' = [Orphaned(orders) EXCEPT ![k].st = "verifying", ![k].log = Append(@, "paid")]
    /\ UNCHANGED <<currentStep, selectedDate, selectedSlot, selectedGround>>

\* options.handler up to its await of verifyPayment.
PaymentSucceeded(k) ==
    /\ orders[k].st = "open"
    /\ IF orders[k].live THEN paymentStep' = "verifying" ELSE UNCHANGED paymentStep
    /\ orders' = [orders EXCEPT ![k].st = "verifying", ![k].log = Append(@, "paid")]
    /\ UNCHANGED <<wizardVars, dsVars, tsVars, gsVars, formData, validationErrors,
                   bfLoading, bfError>>

\* options.handler after verifyPayment answered success.
PaymentVerified(k) ==
    /\ orders[k].st = "verifying"
    /\ handleBookingComplete(BookingOf(orders[k].bookingId))
    /\ RenderChildren(currentStep, BookingOf(orders[k].bookingId))
    /\ orders' = [Orphaned(orders) EXCEPT ![k].st = "verified",
                                          ![k].log = Append(@, "verified")]
    /\ UNCHANGED <<currentStep, selectedDate, selectedSlot, selectedGround>>

\* Mutant: the handler completes the booking whatever verifyPayment answers.
VerificationFailedCompletes(k) ==
    /\ orders[k].st = "verifying"
    /\ handleBookingComplete(BookingOf(orders[k].bookingId))
    /\ RenderChildren(currentStep, BookingOf(orders[k].bookingId))
    /\ orders' = [Orphaned(orders) EXCEPT ![k].st = "unverified"]
    /\ UNCHANGED <<currentStep, selectedDate, selectedSlot, selectedGround>>

\* options.handler after verifyPayment answered success = false or threw.
VerificationFailed(k) ==
    /\ orders[k].st = "verifying"
    /\ OrderTo(k, "unverified")
    /\ \E msg \in {"Payment verification failed. Please contact support.",
                    "server message"} :
           SetIfLive(k, FALSE, msg, "form")
    /\ FormOnly

\* modal.ondismiss up to its await of handlePaymentFailure.
WidgetDismissed(k) ==
    /\ orders[k].st = "open"
    /\ IF orders[k].live
       THEN paymentStep' = "form" /\ bfLoading' = FALSE
       ELSE UNCHANGED <<paymentStep, bfLoading>>
    /\ orders' = [orders EXCEPT ![k].st = "reporting", ![k].reported = TRUE]
    /\ UNCHANGED <<wizardVars, dsVars, tsVars, gsVars, formData, validationErrors, bfError>>

\* modal.ondismiss: handlePaymentFailure answered, cancelBooking is called.
DismissReported(k) ==
    /\ orders[k].st = "reporting"
    /\ OrderTo(k, "cancelling")
    /\ UNCHANGED <<wizardVars, dsVars, tsVars, gsVars, bfVars>>

\* modal.ondismiss: cancelBooking answered.
DismissCancelled(k) ==
    /\ orders[k].st = "cancelling"
    /\ OrderTo(k, "dismissed")
    /\ IF orders[k].live
       THEN bfError' = "Payment was cancelled. The slot is still available for booking."
       ELSE UNCHANGED bfError
    /\ UNCHANGED <<wizardVars, dsVars, tsVars, gsVars, formData, validationErrors,
                   bfLoading, paymentStep>>

\* modal.ondismiss: handlePaymentFailure or cancelBooking threw (catch).
DismissFollowUpFailed(k) ==
    /\ orders[k].st \in {"reporting", "cancelling"}
    /\ OrderTo(k, "dismissed")
    /\ UNCHANGED <<wizardVars, dsVars, tsVars, gsVars, bfVars>>

\* -------------------------------------------------------- confirmation view
\* Mutant: the wizard returns to the first step with its fields kept.
handleStartOverStepOnly ==
    /\ currentStep' = 1
    /\ bookingConfirmation' = Null
    /\ UNCHANGED <<selectedDate, selectedSlot, selectedGround>>

handleStartOver ==
    /\ currentStep' = 1
    /\ selectedDate' = NoDate
    /\ selectedSlot' = Null
    /\ selectedGround' = Null
    /\ bookingConfirmation' = Null

StartOver ==
    /\ ConfirmationShown /\ PageInteractive
    /\ handleStartOver
    /\ RenderChildren(1, Null)
    /\ orders' = OrdersAfterRender(orders, 1, Null)

\* ------------------------------------------------------------ late answers
\* Mutant: the answer is stored by the component that shows the step now.
LateFetchAnsweredApplied ==
    \E s \in lateFetches.pending :
        /\ lateFetches' = [lateFetches EXCEPT !.pending = @ \ {s},
                                              !.answered = @ \cup {s}]
        /\ IF s = 2 /\ TimeSlotSelectionMounted
           THEN /\ \E data \in SlotResponses(NumHoursPayment) : slots' = data
                /\ tsLoading' = FALSE
                /\ UNCHANGED <<selectedSlots, tsError, tsRequest>>
           ELSE UNCHANGED tsVars
        /\ IF s = 3 /\ GroundSelectionMounted
           THEN /\ \E data \in GroundResponses(GroundIdsPayment) : grounds' = data
                /\ gsLoading' = FALSE
                /\ UNCHANGED <<gsError, gsRequest>>
           ELSE UNCHANGED gsVars
        /\ UNCHANGED <<stepVars, adminVars, dsVars, bfVars, orders>>

\* The answer (or the failure) of an abandoned request arrives: setSlots,
\* setGrounds, setError and setLoading are those of the unmounted component
\* and reach no component on the page.
LateFetchAnswered ==
    \E s \in lateFetches.pending :
        /\ lateFetches' = [lateFetches EXCEPT !.pending = @ \ {s},
                                              !.answered = @ \cup {s}]
        /\ UNCHANGED <<stepVars, adminVars, dsVars, tsVars, gsVars, bfVars, orders>>

PaymentStep ==
    \E k \in DOMAIN orders :
        \/ OrderCreated(k) \/ OrderNotStarted(k)
        \/ PaymentFailed(k) \/ PaymentSucceeded(k)
        \/ PaymentVerified(k) \/ VerificationFailed(k)
        \/ WidgetDismissed(k) \/ DismissReported(k)
        \/ DismissCancelled(k) \/ DismissFollowUpFailed(k)

\* Navigation between the steps and the failed fetches of each step.
Navigation ==
    \/ RetryDates \/ DatesFailed \/ DateClick
    \/ RetrySlots \/ SlotsFailed \/ SlotClick \/ SlotBack
    \/ RetryGrounds \/ GroundsFailed \/ GroundClick \/ GroundBack
    \/ InputChange(WizardInputs) \/ FormBack

\* What happens whatever the collaborator offers.
Common ==
    \/ Navigation
    \/ ConfirmClick
    \/ PaymentStep
    \/ StartOver

Next ==
    \/ Common
    \/ DatesLoaded(Dates) \/ SlotsLoaded(NumHoursWizard) \/ GroundsLoaded(GroundIds)
    \/ Submit(MaxOrders)

\* The wizard with a day of NumHoursWizard hours and MaxOrders payment
\* attempts.
Spec == Init /\ [][Next]_vars

NextPayment ==
    \/ Common
    \/ DatesLoaded(DatesPayment) \/ SlotsLoaded(NumHoursPayment)
    \/ GroundsLoaded(GroundIdsPayment)
    \/ Submit(MaxOrdersPayment)

\* The wizard with a day of NumHoursPayment hours and MaxOrdersPayment
\* payment attempts.
SpecPayment == Init /\ [][NextPayment]_vars

NextLate ==
    \/ Common
    \/ LateFetchAnswered
    \/ DatesLoaded(DatesPayment) \/ SlotsLoaded(NumHoursPayment)
    \/ GroundsLoaded(GroundIdsPayment)
    \/ Submit(MaxOrders)

\* The wizard with a day of NumHoursPayment hours and MaxOrders payment
\* attempts, the list requests of unmounted components followed until their
\* answers come.
SpecLate == InitLate /\ [][NextLate]_vars

\* ------------------------------------------------------------ admin pages
customerVars == <<stepVars, lateFetches, dsVars, tsVars, gsVars, bfVars, orders>>

Tokens == {"t1"}

\* What POST /admin/login answers: response.ok, data.success and
\* data.data.token (NoToken when it is missing).
LoginResponses == [ok : BOOLEAN, success : BOOLEAN, token : Tokens \cup {NoToken}]

\* Mutant: the token of any answer that is not an HTTP error is stored.
adminLoginAnyAnswer(token, resp) ==
    IF resp.ok /\ resp.token # NoToken THEN resp.token ELSE token

\* The adminToken after adminLogin got resp: it throws on an HTTP error and
\* stores the token of a success.
adminLogin(token, resp) ==
    IF ~resp.ok THEN token
    ELSE IF resp.success /\ resp.token # NoToken THEN resp.token
    ELSE token

adminLogout(token) == NoToken

isAdminLoggedIn == admin.token # NoToken

\* A login attempt made at the login page is answered.
LoginAnswered ==
    /\ admin.page = "login"
    /\ \E resp \in LoginResponses :
           admin' = [admin EXCEPT
                        !.token = adminLogin(@, resp),
                        !.granted = @ \/ (resp.ok /\ resp.success /\ resp.token # NoToken)]
    /\ UNCHANGED <<offline, customerVars>>

\* Mutant: the dashboard is rendered whoever asks for it.
ProtectedRouteOpen == "dashboard"

\* What the route /admin/dashboard renders.
ProtectedRoute == IF isAdminLoggedIn THEN "dashboard" ELSE "login"

\* The browser goes to /admin/dashboard: the dashboard opens on its
\* 'current' tab.
VisitDashboard ==
    /\ admin.page = "login"
    /\ admin' = [admin EXCEPT !.page = ProtectedRoute, !.tab = "current", !.banner = Null]
    /\ UNCHANGED <<offline, customerVars>>

handleLogout ==
    /\ admin.page = "dashboard"
    /\ admin' = [admin EXCEPT !.token = adminLogout(@), !.granted = FALSE,
                              !.page = "login", !.tab = "current", !.banner = Null]
    /\ offline' = MountOfflineBookingFlow
    /\ UNCHANGED customerVars

\* setActiveTab('offline') mounts the flow.
OpenOfflineTab ==
    /\ admin.page = "dashboard" /\ admin.tab # "offline"
    /\ admin' = [admin EXCEPT !.tab = "offline"]
    /\ offline' = MountOfflineBookingFlow
    /\ UNCHANGED customerVars

OfflineBookingFlowMounted == admin.page = "dashboard" /\ admin.tab = "offline"

\* Cancel, shown in the date step of the flow.
handleCancelOfflineBooking ==
    /\ OfflineBookingFlowMounted /\ offline.currentStep = 1
    /\ admin' = [admin EXCEPT !.tab = "current"]
    /\ offline' = MountOfflineBookingFlow
    /\ UNCHANGED customerVars

\* The timer of handleOfflineBookingComplete: the banner goes and the
\* dashboard shows its 'current' tab.
BannerTimeout ==
    /\ admin.page = "dashboard" /\ admin.banner # Null
    /\ admin' = [admin EXCEPT !.banner = Null, !.tab = "current"]
    /\ offline' = MountOfflineBookingFlow
    /\ UNCHANGED customerVars

\* ----------------------------------------------------- OfflineBookingFlow
\* What the step components of the flow pass to its handlers.
OfflineRuns ==
    { run \in { StoredRun(h, n) : h \in 0 .. (NumHoursOffline - 1), n \in 1 .. NumHoursOffline } :
        run.hours[Len(run.hours)] < NumHoursOffline }

OfflineInputs ==
    [name |-> { <<"A", "l">> }, phone |-> { PhoneDigits },
     email |-> { <<"a", "@", "b", ".", "c", "o">> },
     totalAmount |-> { <<"5", "0">> }]

OfflineStep(guard, next) ==
    /\ OfflineBookingFlowMounted /\ guard
    /\ offline' = next
    /\ UNCHANGED <<admin, customerVars>>

OfflineDateSelect ==
    \E date \in DatesPayment :
        OfflineStep(offline.currentStep = 1,
                    [offline EXCEPT !.selectedDate = date, !.currentStep = 2])

\* hours || [hour]: the array the slot step passes is never missing.
OfflineSlotSelect ==
    \E run \in OfflineRuns :
        OfflineStep(offline.currentStep = 2,
                    [offline EXCEPT !.selectedSlot = run, !.currentStep = 3])

OfflineGroundSelect ==
    \E g \in GroundIdsPayment :
        OfflineStep(offline.currentStep = 3,
                    [offline EXCEPT !.selectedGround = [id |-> g, available |-> TRUE],
                                    !.currentStep = 4])

\* onBack of the slot step and of the ground step.
OfflineBack ==
    OfflineStep(offline.currentStep \in {2, 3},
                [offline EXCEPT !.currentStep = @ - 1])

handleBackToGrounds ==
    OfflineStep(offline.currentStep = 4 /\ ~offline.loading,
                [offline EXCEPT !.currentStep = 3, !.error = NoError])

OfflineInputChange ==
    \E name \in DOMAIN OfflineInputs : \E value \in OfflineInputs[name] :
        OfflineStep(offline.currentStep = 4 /\ ~offline.loading,
                    [offline EXCEPT !.formData[name] = value])

\* parseFloat of a string of digits: NaN for the empty string.
DigitValue(c) == CHOOSE d \in 0 .. 9 : PhoneDigits[10 - d] = c

RECURSIVE DecimalValue(_)
DecimalValue(str) ==
    IF Len(str) = 0 THEN 0
    ELSE 10 * DecimalValue(SubSeq(str, 1, Len(str) - 1)) + DigitValue(str[Len(str)])

\* parseFloat(formData.totalAmount) || 0
AmountOf(str) == IF Len(str) = 0 THEN 0 ELSE DecimalValue(str)

bookingData(flow) ==
    [name |-> Trim(flow.formData.name),
     phone |-> Trim(flow.formData.phone),
     email |-> Trim(flow.formData.email),
     groundId |-> flow.selectedGround.id,
     date |-> flow.selectedDate,
     startHour |-> flow.selectedSlot.hour,
     duration |-> Len(flow.selectedSlot.hours),
     totalAmount |-> AmountOf(flow.formData.totalAmount)]

\* The inputs marked required are filled: the browser submits the form.
RequiredFilled ==
    \A name \in {"name", "phone", "email"} : Len(offline.formData[name]) > 0

\* handleSubmit up to its await of createOfflineBooking.
OfflineSubmit ==
    OfflineStep(/\ offline.currentStep = 4 /\ ~offline.loading
                /\ RequiredFilled /\ offline.submits < MaxSubmits,
                [offline EXCEPT !.loading = TRUE, !.error = NoError,
                                !.request = bookingData(offline),
                                !.submits = @ + 1])

\* What POST /admin/offline-booking answers: response.ok and data.success.
OfflineResponses == [ok : BOOLEAN, success : BOOLEAN]

\* handleSubmit after createOfflineBooking answered resp: it throws on an
\* HTTP error; onBookingComplete is handleOfflineBookingComplete of the
\* dashboard.
OfflineAnswered(resp) ==
    /\ OfflineBookingFlowMounted /\ offline.loading
    /\ IF ~resp.ok
       THEN /\ \E msg \in {"server message", "Failed to create offline booking"} :
                   offline' = [offline EXCEPT !.error = msg, !.loading = FALSE]
            /\ UNCHANGED admin
       ELSE IF resp.success
            THEN /\ offline' = [offline EXCEPT !.completed = [id |-> offline.submits],
                                                !.loading = FALSE]
                 /\ admin' = [admin EXCEPT !.banner = [id |-> offline.submits]]
            ELSE /\ offline' = [offline EXCEPT !.loading = FALSE]
                 /\ UNCHANGED admin
    /\ UNCHANGED customerVars

NextAdmin ==
    \/ LoginAnswered \/ VisitDashboard \/ handleLogout
    \/ OpenOfflineTab \/ handleCancelOfflineBooking \/ BannerTimeout
    \/ OfflineDateSelect \/ OfflineSlotSelect \/ OfflineGroundSelect
    \/ OfflineBack \/ handleBackToGrounds \/ OfflineInputChange
    \/ OfflineSubmit
    \/ \E resp \in OfflineResponses : OfflineAnswered(resp)

\* The admin pages: logins, the dashboard and its offline booking flow with
\* a day of NumHoursOffline hours and MaxSubmits submits.
SpecAdmin == Init /\ [][NextAdmin]_vars

\* The form submitted once with what was typed: validateForm applies
\* isValidPhone and isValidEmail to the trimmed fields.
SpecPhone == InitAtForm(FormInputsPhone, FirstHour) /\ [][Submit(MaxOrders)]_vars

SpecEmail == InitAtForm(FormInputsEmail, FirstHour) /\ [][Submit(MaxOrders)]_vars

NextRange ==
    \/ InputChange(WizardInputs)
    \/ Submit(MaxOrders)
    \/ PaymentStep
    \/ StartOver

\* The form and the confirmation, which show formatTimeRange of the stored
\* hours, for every run of up to MaxRun hours of a day.
SpecRange == InitAtForm(WizardInputs, StoredRuns) /\ [][NextRange]_vars

NextEngine ==
    \/ Navigation
    \/ ConfirmCall
    \/ DatesLoaded(DatesPayment) \/ SlotsLoaded(NumHours) \/ GroundsLoaded(GroundIdsPayment)

\* The steps of the wizard up to the form with a day of NumHours hours, and
\* with confirm() callable on any selection the slot grid shows, not only
\* through the rendered button.
SpecEngine == Init /\ [][NextEngine]_vars

NextToggle ==
    \/ Navigation
    \/ ConfirmCall
    \/ SlotClickTwice
    \/ DatesLoaded(DatesPayment) \/ SlotsLoaded(NumHoursToggle)
    \/ GroundsLoaded(GroundIdsPayment)

\* The steps of the wizard up to the form with a day of NumHoursToggle hours,
\* the handlers of the slot step called directly, also twice within one
\* render.
SpecToggle == Init /\ [][NextToggle]_vars

\* ================================================================ claims
\* The hours selected in the slot step, as a set.
ChosenHours == { selectedSlots[i].index : i \in 1 .. Len(selectedSlots) }

Min(S) == CHOOSE x \in S : \A y \in S : x <= y
Max(S) == CHOOSE x \in S : \A y \in S : x >= y

\* S is an unbroken run of hours: it holds every hour between its ends.
IsRun(S) == \A h \in Min(S) .. Max(S) : h \in S

\* The elements of S in ascending order.
Ascending(S) ==
    CHOOSE seq \in [1 .. Cardinality(S) -> S] :
        \A i \in 1 .. Cardinality(S), j \in 1 .. Cardinality(S) : i < j => seq[i] < seq[j]

\* C1: for every non-empty selection, areSlotConsecutive is true exactly
\* when the selected hours, sorted ascending, rise by 1 from each to the
\* next, i.e. the selection holds every hour between its smallest and its
\* largest; a selection of one hour is always consecutive.
C1_ConsecutiveIffRun ==
    selectedSlots # <<>> =>
        /\ areSlotConsecutive(selectedSlots) <=> IsRun(ChosenHours)
        /\ Len(selectedSlots) = 1 => areSlotConsecutive(selectedSlots)

\* C1 witness: three hours toggled out of order, with a gap.
C1_Witness ==
    /\ Len(selectedSlots) = 3
    /\ Indices(selectedSlots) = <<3, 0, 1>>
    /\ ~areSlotConsecutive(selectedSlots)

\* C2: confirm on a non-empty consecutive selection, toggled in any order,
\* moves the wizard from the slot step to the ground step and stores the
\* slot with hour = the smallest selected hour and hours = the selected
\* hours in ascending order.
C2_ConfirmStoresSortedRun ==
    [][ (selectedSlots # <<>> /\ IsRun(ChosenHours) /\ ConfirmCall) =>
            /\ currentStep = 2 /\ currentStep' = 3
            /\ selectedSlot'.hour = Min(ChosenHours)
            /\ selectedSlot'.hours = Ascending(ChosenHours)
            /\ selectedSlot'.hours[1] = selectedSlot'.hour
            /\ selectedSlot'.slot = SlotLabel(Min(ChosenHours)) ]_vars

\* C2 witness: the ground step entered with a three-hour slot stored.
C2_Witness ==
    /\ currentStep = 3
    /\ gsLoading
    /\ selectedSlot # Null
    /\ selectedSlot.hours = <<0, 1, 2>>
    /\ selectedSlot.hour = 0

\* C3: confirm on an empty selection reports the "no slot chosen" failure,
\* which is not the non-consecutive one, and does not call onSlotSelect:
\* step and stored slot stay as they are.
C3_EmptyConfirmRejected ==
    [][ (selectedSlots = <<>> /\ ConfirmCall) =>
            /\ tsError' = ErrNoSlot
            /\ tsError' # ErrNotConsecutive
            /\ currentStep' = currentStep
            /\ selectedSlot' = selectedSlot ]_vars

\* C3 witness: the slot step showing the "no slot chosen" failure.
C3_Witness ==
    /\ currentStep = 2
    /\ selectedSlots = <<>>
    /\ tsError = ErrNoSlot

\* C4: confirm on two or more hours that are not a consecutive run reports
\* the "non-consecutive" failure and does not call onSlotSelect: the wizard
\* stays in the slot step with the stored slot as it was; the confirm
\* button is disabled on such a selection.
C4_GapConfirmRejected ==
    [][ (Len(selectedSlots) >= 2 /\ ~IsRun(ChosenHours)) =>
            /\ ~ConfirmButtonEnabled
            /\ ConfirmCall =>
                  /\ tsError' = ErrNotConsecutive
                  /\ currentStep' = 2
                  /\ selectedSlot' = selectedSlot
                  /\ selectedSlots' = selectedSlots ]_vars

\* C4 witness: the slot step showing the failure for hours 0, 1 and 3.
C4_Witness ==
    /\ currentStep = 2
    /\ ChosenHours = {0, 1, 3}
    /\ tsError = ErrNotConsecutive

\* C5: the confirmation is set only by a verifyPayment answer of success
\* for that booking: whenever bookingConfirmation changes to a booking, the
\* step taken is the verified answer of the attempt that created that
\* booking, and no failure, dismissal or error of an attempt changes it.
C5_ConfirmedOnlyIfVerified ==
    [][ /\ (bookingConfirmation' # bookingConfirmation /\ bookingConfirmation' # Null) =>
              \E k \in DOMAIN orders :
                  /\ orders[k].st = "verifying" /\ orders'[k].st = "verified"
                  /\ orders[k].bookingId = k
                  /\ bookingConfirmation' = BookingOf(k)
        /\ \A k \in DOMAIN orders :
              ( \/ OrderNotStarted(k) \/ PaymentFailed(k) \/ WidgetDismissed(k)
                \/ VerificationFailed(k) \/ DismissReported(k)
                \/ DismissCancelled(k) \/ DismissFollowUpFailed(k) ) =>
                  bookingConfirmation' = bookingConfirmation ]_vars

\* C5 witness: a booking is confirmed although an earlier attempt of the
\* session failed its verification.
C5_Witness ==
    /\ bookingConfirmation # Null
    /\ \E k \in DOMAIN orders : orders[k].st = "unverified"

\* C6: a confirmation shown is that of an attempt whose form passed the
\* local validation, whose order was then created, whose payment then
\* succeeded in the widget, and whose verification, requested for the
\* booking of that same order, then succeeded.
C6_ConfirmedAfterFourSteps ==
    bookingConfirmation # Null =>
        \E k \in DOMAIN orders :
            /\ bookingConfirmation = BookingOf(k)
            /\ orders[k].bookingId = k
            /\ validateForm(orders[k].data)
            /\ orders[k].log = <<"validated", "ordered", "paid", "verified">>

\* C6 witness: the confirmation of a payment that failed once in the widget
\* and succeeded on the retry.
C6_Witness ==
    /\ bookingConfirmation # Null
    /\ currentStep = 4
    /\ \E k \in DOMAIN orders : bookingConfirmation = BookingOf(k) /\ orders[k].reported

C9_LaterFieldNeedsEarlier ==
    /\ bookingConfirmation # Null => selectedGround # Null
    /\ selectedGround # Null => selectedSlot # Null
    /\ selectedSlot # Null => selectedDate # NoDate

\* C10: the date is stored whenever the step is the slot step or later,
\* the slot, with at least one hour, whenever it is the ground step or
\* later, and the ground whenever it is the form step.
C10_StepHasItsFields ==
    /\ currentStep >= 2 => selectedDate # NoDate
    /\ currentStep >= 3 => (selectedSlot # Null /\ Len(selectedSlot.hours) >= 1)
    /\ currentStep = 4 => selectedGround # Null

\* C10 witness: the ground step entered again from the form, with date,
\* slot and ground stored.
C10_Witness ==
    /\ currentStep = 3
    /\ selectedDate # NoDate
    /\ selectedSlot # Null
    /\ selectedGround # Null
    /\ bookingConfirmation = Null

\* C11: a date chosen in the date step leads to the slot step only; the
\* ground step is entered from an earlier step only by a confirm that stores
\* the slot just selected, and the form step is entered only from the ground
\* step by the choice of an available ground of the list just fetched, so
\* after a new date the form (and createPaymentOrder) is reached only through
\* a new confirm and a new ground choice; choosing a ground leaves date and
\* stored slot as they are.
C11_DateForcesReselection ==
    [][ /\ (currentStep = 1 /\ currentStep' # 1) =>
              (currentStep' = 2 /\ DateClick /\ selectedSlots' = <<>>)
        /\ (currentStep < 3 /\ currentStep' >= 3) =>
              /\ currentStep = 2 /\ currentStep' = 3
              /\ selectedSlots # <<>>
              /\ selectedSlot'.hours = Ascending(ChosenHours)
              /\ grounds' = <<>> /\ gsLoading'
        /\ (currentStep < 4 /\ currentStep' = 4) =>
              /\ currentStep = 3
              /\ \E g \in DOMAIN grounds :
                     grounds[g].available /\ selectedGround' = grounds[g]
        /\ Len(orders') > Len(orders) => (currentStep = 4 /\ currentStep' = 4)
        /\ GroundClick => (selectedDate' = selectedDate /\ selectedSlot' = selectedSlot)
      ]_vars

\* C11 witness: the slot step entered again, for the other date, with the
\* slot and the ground of the earlier pass still stored.
C11_Witness ==
    /\ currentStep = 2
    /\ selectedDate = "2026-02-11"
    /\ selectedSlot # Null
    /\ selectedGround # Null
    /\ bookingConfirmation = Null

\* C12: a click on a slot that is not enabled changes nothing; a click on an
\* enabled slot adds its hour to the selection if it was absent and removes
\* it if it was present, keeps every other selected hour (in the order
\* selected), and leaves the slot list, the error, the wizard's fields and
\* every other component as they were.
C12_ToggleFrame ==
    [][ \A index \in DOMAIN slots :
          (SlotClick /\ handleSlotClick(slots[index], index)) =>
              IF ~slots[index].enabled
              THEN UNCHANGED vars
              ELSE /\ ChosenHours' = IF index \in ChosenHours
                                     THEN ChosenHours \ {index}
                                     ELSE ChosenHours \cup {index}
                   /\ RemoveSlot(selectedSlots', index) = RemoveSlot(selectedSlots, index)
                   /\ \A i \in 1 .. Len(selectedSlots') :
                          selectedSlots'[i].slot = slots[selectedSlots'[i].index].slot
                   /\ UNCHANGED <<wizardVars, dsVars, tsRequest, slots, tsLoading, tsError,
                                  gsVars, bfVars, orders>> ]_vars

\* C12 witness: two hours selected out of order around a booked one.
C12_Witness ==
    /\ SlotGridShown
    /\ Indices(selectedSlots) = <<2, 0>>
    /\ ~slots[1].enabled

\* The hours of a selection, as a set.
HoursOf(sel) == { sel[i].index : i \in 1 .. Len(sel) }

\* sel after one click on the slot of hour index, handled by the handler of
\* the render that shows sel.
Toggled(sel, index) == SlotUpdate(sel, sel, slots[index], index)

\* C13: whatever the selection shown, and whatever the hour, two clicks on
\* that hour, each handled after the render of the one before, leave the
\* set of selected hours as it was before the first.
C13_ToggleTwiceRestores ==
    SlotGridShown =>
        \A index \in DOMAIN slots :
            HoursOf(Toggled(Toggled(selectedSlots, index), index)) = ChosenHours

\* C13 witness: the grid shown with one hour selected and the other
\* enabled, so that a pair of clicks removes and adds, or adds and removes.
C13_Witness ==
    /\ SlotGridShown
    /\ Indices(selectedSlots) = <<1>>
    /\ slots[0].enabled /\ slots[1].enabled

\* C14: the selection never holds the same hour twice, also after two
\* clicks on one slot handled within one render.
C14_NoDuplicateHours ==
    \A i \in 1 .. Len(selectedSlots), j \in 1 .. Len(selectedSlots) :
        i # j => selectedSlots[i].index # selectedSlots[j].index

\* C15: a submit of a form that fails the local validation leaves the wizard
\* in the form step without confirmation, stores one error per failing
\* field under that field's name, and calls nothing: no payment attempt is
\* started, loading, paymentStep and the error banner stay as they were.
C15_InvalidSubmitStays ==
    [][ (Submit(MaxOrders) /\ ~validateForm(formData)) =>
            /\ currentStep' = 4 /\ bookingConfirmation' = Null
            /\ DOMAIN validationErrors' # {}
            /\ DOMAIN validationErrors' \subseteq {"name", "phone", "email"}
            /\ "name" \in DOMAIN validationErrors' <=> NameError(formData.name) # NoError
            /\ "phone" \in DOMAIN validationErrors' <=> PhoneError(formData.phone) # NoError
            /\ "email" \in DOMAIN validationErrors' <=> EmailError(formData.email) # NoError
            /\ \A f \in DOMAIN validationErrors' : validationErrors'[f] # NoError
            /\ orders' = orders
            /\ UNCHANGED <<bfLoading, bfError, paymentStep>> ]_vars

\* C15 witness: the form showing the error of a malformed email only, with
\* no payment attempt started.
C15_Witness ==
    /\ BookingFormMounted
    /\ DOMAIN validationErrors = {"email"}
    /\ validationErrors["email"] = "Please enter a valid email address"
    /\ paymentStep = "form" /\ ~bfLoading
    /\ orders = <<>>

\* C16: when the payment fails in the widget, and when the handling of a
\* dismissal of the widget ends, whatever the follow-up calls answered, the
\* wizard is in the form step without confirmation, the form is editable
\* (loading false, paymentStep 'form') and an error message is shown.
C16_FailureShowsMessage ==
    [][ \A k \in DOMAIN orders :
          ( /\ orders[k].live
            /\ PaymentFailed(k) \/ DismissCancelled(k) \/ DismissFollowUpFailed(k) ) =>
              /\ currentStep' = 4 /\ bookingConfirmation' = Null
              /\ ~bfLoading' /\ paymentStep' = "form"
              /\ bfError' # NoError ]_vars

\* C17: a booking created by createPaymentOrder whose payment failed, whose
\* widget was dismissed or whose widget could not be opened has been
\* reported to the collaborator (handlePaymentFailure called for it).
C17_FailedBookingReported ==
    [][ \A k \in DOMAIN orders' :
          /\ ( /\ orders'[k].bookingId # 0
               /\ orders'[k].st \in {"openFailed", "reporting", "cancelling", "dismissed"} ) =>
                 orders'[k].reported
          /\ (k \in DOMAIN orders /\ PaymentFailed(k)) => orders'[k].reported ]_vars

\* C18: when verifyPayment answers failure or throws, the attempt ends
\* without another verification, the wizard stays in the form step without
\* confirmation, and the message shown tells the user to contact support.
C18_VerificationFailureContactSupport ==
    [][ \A k \in DOMAIN orders :
          (orders[k].live /\ VerificationFailed(k)) =>
              /\ currentStep' = 4 /\ bookingConfirmation' = Null
              /\ orders'[k].st = "unverified" /\ orders'[k].log = orders[k].log
              /\ bfError' = "Payment verification failed. Please contact support." ]_vars

\* C19: the form step is entered only from the ground step, with a ground
\* marked available in the list fetched for the stored date and the hours
\* of the stored slot; date, slot and ground stay as they are while the
\* wizard is in the form step; a click on a ground that is not available
\* changes nothing.
C19_GroundAvailableForSlot ==
    [][ /\ (currentStep # 4 /\ currentStep' = 4) =>
              /\ currentStep = 3
              /\ \E g \in DOMAIN grounds :
                     grounds[g].available /\ selectedGround' = grounds[g]
              /\ gsRequest = [date |-> selectedDate', hours |-> selectedSlot'.hours]
        /\ (currentStep = 4 /\ currentStep' = 4) =>
              UNCHANGED <<selectedDate, selectedSlot, selectedGround>>
        /\ \A g \in DOMAIN grounds :
              (GroundGridShown /\ ~grounds[g].available /\ handleGroundClick(grounds[g])) =>
                  UNCHANGED vars ]_vars

\* C19 witness: the form step with the second ground stored, for the second
\* date and a slot of two hours.
C19_Witness ==
    /\ BookingFormMounted
    /\ selectedGround = [id |-> "G2", available |-> TRUE]
    /\ selectedDate = "2026-02-11"
    /\ selectedSlot.hours = <<0, 1>>

\* C20: 'Book Another Slot' returns the wizard to the date step with date,
\* slot, ground and confirmation unset and no slot selected, and the slot
\* step is always entered with an empty selection.
C20_StartOverResets ==
    [][ /\ StartOver =>
              /\ bookingConfirmation # Null
              /\ currentStep' = 1
              /\ selectedDate' = NoDate /\ selectedSlot' = Null
              /\ selectedGround' = Null /\ bookingConfirmation' = Null
              /\ DateSelectionMounted' /\ selectedSlots' = <<>>
        /\ (currentStep # 2 /\ currentStep' = 2) => selectedSlots' = <<>> ]_vars

\* C20 witness: the slot step of the booking after a confirmed one, with
\* nothing selected and nothing stored but the new date.
C20_Witness ==
    /\ currentStep = 2
    /\ selectedSlots = <<>>
    /\ selectedSlot = Null /\ selectedGround = Null /\ bookingConfirmation = Null
    /\ \E k \in DOMAIN orders : orders[k].st = "verified"

\* C21: a failed fetch of the date, slot or ground list stores the step's
\* error with loading false, which renders the error view with its retry
\* button, and leaves the list and the wizard's step, date, slot, ground and
\* confirmation as they were; the retry clears the error and loads again,
\* no error is stored while a step loads, and an answer that ends the
\* loading without error leaves the fetched list in place.
C21_FetchFailureRetryable ==
    [][ /\ DatesFailed =>
              /\ DateSelectionMounted' /\ ~dsLoading' /\ dsError' = ErrLoadDates
              /\ UNCHANGED <<wizardVars, datesByMonth>>
        /\ SlotsFailed =>
              /\ TimeSlotSelectionMounted' /\ ~tsLoading' /\ tsError' = ErrLoadSlots
              /\ UNCHANGED <<wizardVars, slots, selectedSlots>>
        /\ GroundsFailed =>
              /\ GroundSelectionMounted' /\ ~gsLoading' /\ gsError' = ErrLoadGrounds
              /\ UNCHANGED <<wizardVars, grounds>>
        /\ RetryDates => (dsLoading' /\ dsError' = NoError /\ UNCHANGED wizardVars)
        /\ RetrySlots => (tsLoading' /\ tsError' = NoError /\ UNCHANGED wizardVars)
        /\ RetryGrounds => (gsLoading' /\ gsError' = NoError /\ UNCHANGED wizardVars)
        /\ dsLoading => dsError = NoError
        /\ tsLoading => tsError = NoError
        /\ gsLoading => gsError = NoError
        /\ (currentStep = 1 /\ dsLoading /\ ~dsLoading' /\ dsError' = NoError) =>
              (datesByMonth' # <<>> /\ UNCHANGED wizardVars)
        /\ (currentStep = 2 /\ tsLoading /\ ~tsLoading' /\ tsError' = NoError) =>
              (slots' # <<>> /\ UNCHANGED wizardVars)
        /\ (currentStep = 3 /\ gsLoading /\ ~gsLoading' /\ gsError' = NoError) =>
              (grounds' # <<>> /\ UNCHANGED wizardVars) ]_vars

\* C21 witness: the ground step showing its error view, with the date and
\* the slot of the steps before stored.
C21_Witness ==
    /\ currentStep = 3
    /\ ~gsLoading /\ gsError = ErrLoadGrounds
    /\ selectedDate # NoDate /\ selectedSlot # Null

InFlight(k) == orders[k].live /\ orders[k].st \in {"creating", "open", "verifying"}

C23_OnePaymentInFlight ==
    /\ \A k \in DOMAIN orders :
           orders[k].live /\ orders[k].st \in {"open", "verifying"} => ~FormUsable
    /\ \A j, k \in DOMAIN orders : InFlight(j) /\ InFlight(k) => j = k

\* C24: isValidPhone accepts a string exactly when it has 10 characters, all
\* of them decimal digits; validateForm reports the phone number of a
\* submitted form accordingly.
TenDigits(str) == Len(str) = 10 /\ \A i \in 1 .. Len(str) : str[i] \in Digits

C24_PhoneTenDigits ==
    /\ isValidPhone(formData.phone) <=> TenDigits(formData.phone)
    /\ isValidPhone(Trim(formData.phone)) <=> TenDigits(Trim(formData.phone))
    /\ ("phone" \in DOMAIN validationErrors
          /\ validationErrors["phone"] = "Phone number must be 10 digits")
         => ~TenDigits(Trim(formData.phone))

\* A form with no name and a 10-digit phone number was submitted: only the
\* name is reported.
C24_Witness ==
    /\ TenDigits(formData.phone)
    /\ DOMAIN validationErrors = {"name"}

\* C25 as claimed: isValidEmail accepts a string exactly when it is a
\* non-empty run of non-whitespace characters, an @, another such run, a dot
\* and a third such run.
NonWhitespace(str, from, to) ==
    from <= to /\ \A i \in from .. to : str[i] \notin Whitespace

ClaimedPattern(str) ==
    \E at \in 1 .. Len(str) : \E dot \in 1 .. Len(str) :
        /\ at < dot /\ str[at] = "@" /\ str[dot] = "."
        /\ NonWhitespace(str, 1, at - 1)
        /\ NonWhitespace(str, at + 1, dot - 1)
        /\ NonWhitespace(str, dot + 1, Len(str))

C25_Claimed == isValidEmail(formData.email) <=> ClaimedPattern(formData.email)

\* C25: isValidEmail accepts a string exactly when it holds a single @, no
\* whitespace, at least one character before the @, and after the @ a dot
\* with at least one character on each side; it accepts "a@b.co" and rejects
\* "a@b" and "a.com".
SingleAtPattern(str) ==
    /\ ClaimedPattern(str)
    /\ Cardinality({ i \in 1 .. Len(str) : str[i] = "@" }) = 1

C25_EmailPattern ==
    /\ isValidEmail(formData.email) <=> SingleAtPattern(formData.email)
    /\ isValidEmail(<<"a", "@", "b", ".", "c", "o">>)
    /\ ~isValidEmail(<<"a", "@", "b">>)
    /\ ~isValidEmail(<<"a", ".", "c", "o", "m">>)
    /\ ("email" \in DOMAIN validationErrors
          /\ validationErrors["email"] = "Please enter a valid email address")
         => ~SingleAtPattern(Trim(formData.email))

\* A form with a second @ where the claimed pattern allows any character
\* was submitted and its address reported.
C25_Witness ==
    /\ formData.email = <<"a", "@", "@", ".", "a">>
    /\ "email" \in DOMAIN validationErrors

\* C26: an edit of one field of the form changes the value of that field
\* only, sets that field's validation error, if it has one, to none, and
\* leaves the errors of the other fields as they are.
C26_EditClearsOwnError ==
    [][\A name \in DOMAIN formData :
          InputChange(WizardInputs) /\ formData'[name] # formData[name] =>
              /\ \A other \in DOMAIN formData \ {name} :
                     formData'[other] = formData[other]
              /\ DOMAIN validationErrors' = DOMAIN validationErrors
              /\ \A other \in DOMAIN validationErrors \ {name} :
                     validationErrors'[other] = validationErrors[other]
              /\ name \in DOMAIN validationErrors =>
                     validationErrors'[name] = NoError]_vars

\* The empty form was submitted and the name then typed: its error is gone,
\* those of the phone number and the address are still shown.
C26_Witness ==
    /\ DOMAIN validationErrors = {"name", "phone", "email"}
    /\ validationErrors["name"] = NoError
    /\ validationErrors["phone"] = "Phone number is required"
    /\ validationErrors["email"] = "Email is required"
    /\ Len(formData.name) > 0 /\ Len(formData.phone) = 0

\* C27: in the ground step and in the form step the stored slot has at least
\* one hour, its hours ascend by one, its hour is the first of them, and it
\* was stored, together with no other date, by a confirm in a slot step whose
\* list was fetched for the stored date and shows every one of its hours as
\* enabled; neither the slot nor the date changes while the wizard stays in
\* these steps.
SlotShape(s) ==
    /\ s # Null
    /\ Len(s.hours) >= 1
    /\ \A i \in 1 .. (Len(s.hours) - 1) : s.hours[i + 1] = s.hours[i] + 1
    /\ s.hour = s.hours[1]

ClockLabel(h) ==
    [hour |-> IF h \in {0, 12} THEN 12 ELSE IF h < 12 THEN h ELSE h - 12,
     amPm |-> IF h < 12 THEN "AM" ELSE "PM"]

ClaimedRange(hours) ==
    LET hs == { hours[i] : i \in 1 .. Len(hours) }
    IN  [start |-> ClockLabel(Min(hs)), end |-> ClockLabel((Max(hs) + 1) % HoursPerDay)]

C28_RangeLabels ==
    selectedSlot # Null =>
        /\ formatTimeRange(selectedSlot.hours) = ClaimedRange(selectedSlot.hours)
        /\ Len(selectedSlot.hours) > 1 => TimeShown = ClaimedRange(selectedSlot.hours)

\* C29: when createOfflineBooking has answered a submit of the offline
\* booking form, loading is false and exactly one of the two happened:
\* onBookingComplete was called with the created booking, and then the
\* answer was a success, or an error message is shown; the request carried
\* the hour of the stored slot as startHour and the number of its hours as
\* duration.
C29_SubmitHasOneOutcome ==
    [][\A resp \in OfflineResponses :
          OfflineAnswered(resp) =>
              /\ ~offline'.loading
              /\ (offline'.completed # offline.completed) # (offline'.error # NoError)
              /\ (offline'.completed # offline.completed) =>
                     (resp.success /\ admin'.banner = offline'.completed)
              /\ offline.request.startHour = offline.selectedSlot.hour
              /\ offline.request.duration = Len(offline.selectedSlot.hours)]_vars

\* C30: isAdminLoggedIn is true exactly when a login was answered with
\* success and a token since the last adminLogout (or ever, if there was
\* none); a login answered otherwise leaves the stored token as it was; the
\* dashboard and its offline booking flow are on the page only while
\* isAdminLoggedIn is true, and /admin/dashboard shows the login page
\* otherwise.
C30_LoggedInIffGranted ==
    [][ /\ isAdminLoggedIn' <=> admin'.granted
        /\ admin'.page = "dashboard" => isAdminLoggedIn'
        /\ (LoginAnswered /\ admin'.granted = admin.granted) =>
               admin'.token = admin.token
        /\ (VisitDashboard /\ ~isAdminLoggedIn) => admin'.page = "login"
        /\ (VisitDashboard /\ isAdminLoggedIn) => admin'.page = "dashboard"
        /\ handleLogout => ~isAdminLoggedIn' ]_vars

\* A login was granted and the dashboard, asked for, shows its offline
\* booking flow at the form.
C30_Witness ==
    /\ isAdminLoggedIn /\ admin.granted
    /\ admin.page = "dashboard" /\ admin.tab = "offline"
    /\ offline.currentStep = 4

====
